---- MODULE Spec2Model ----
(***************************************************************************)
(* A model of src/bot.py: the relay between a chat platform and a remote   *)
(* question-answering API, with its per-user conversation store (an        *)
(* in-process dict or a MongoDB collection).                               *)
(*                                                                         *)
(* Python values are modelled as follows.                                  *)
(*   - a str is [t |-> "str", v |-> <<tokens>>]: the sequence of its       *)
(*     pieces, so that f-string formatting is concatenation and "contains" *)
(*     is membership; None is [t |-> "none", v |-> <<>>];                  *)
(*   - a conversation id is a TLA+ string, "None" standing for None;       *)
(*   - a list object lives in `heap` and is named by its object id, so     *)
(*     that two names of one list see each other's appends;                *)
(*   - a dict of user fields is [t |-> "dict", items |-> {<<key, val>>}].  *)
(* One action is one run of a coroutine between two suspension points      *)
(* (awaits that reach the network): asyncio never preempts in between.     *)
(***************************************************************************)
EXTENDS Integers, Sequences, FiniteSets, TLC

VARIABLES
    STORAGE_TYPE,       \* bot.py:29   the global, rewritten by initialize_storage
    MONGODB_URI,        \* bot.py:30   TRUE iff the environment sets it
    API_KEY,            \* bot.py:26   TRUE iff the environment sets it
    mongo_client,       \* bot.py:35
    mongo_collection,   \* bot.py:36
    in_memory_storage,  \* bot.py:37   key -> record; history is a heap object id
    heap,               \* the list objects: object id -> sequence of turns
    mongo,              \* the documents of the MongoDB collection: key -> document
    proc,               \* "running" | "exited": the interpreter process
    init,               \* position of initialize_storage; whether on_ready has run
    pl,                 \* the on_message coroutines in flight, one per slot
    nEvents,            \* per user: how many of its messages have been processed
    faults,             \* environment failures injected so far
    limits,             \* the bounds of this behaviour (fixed by Init)
    call,               \* the arguments of a function that is run on its own
    ops,                \* the effects of the last step: store reads/writes, API results, sends
    past                \* history variables: the configured storage kind, whether
                        \* initialize_storage has fallen back, the variants used so far

vars == <<STORAGE_TYPE, MONGODB_URI, API_KEY, mongo_client, mongo_collection,
          in_memory_storage, heap, mongo, proc, init, pl, nEvents, faults,
          limits, call, ops, past>>

-----------------------------------------------------------------------------
(* Bounds of the model.                                                    *)

\* Number of distinct platform users.
NumUsers == 2
\* Number of on_message coroutines that can be in flight at once.
MaxPipelines == 2
\* Eligible events processed in one behaviour of Spec.
MaxEvents == 2
\* Environment failures (store errors, non-nominal API outcomes) in one behaviour.
MaxFaults == 1

Users == 1..NumUsers
Slots == 1..MaxPipelines
\* List objects: one per stored record and one per coroutine; 0 names no object.
ObjIds == 1..(NumUsers + MaxPipelines)

-----------------------------------------------------------------------------
(* Values.                                                                 *)

None == "None"
Str(tokens) == [t |-> "str", v |-> tokens]
PyNone == [t |-> "none", v |-> <<>>]
IsStr(x) == x.t = "str"

Range(s) == {s[i] : i \in 1..Len(s)}

\* str(user_id): the store key of a user.
user_id_str(user_id) == ToString(user_id)
Keys == {user_id_str(u) : u \in Users}

Turn(role, content) == [role |-> role, content |-> content]

NoneInfo == [t |-> "none", items |-> {}]
\* No function is run on its own.
NoCall == [text |-> <<>>, max_length |-> 0]
Dict(items) == [t |-> "dict", items |-> items]
\* Python truthiness of `user_info`: None and the empty dict are falsy.
Truthy(user_info) == user_info.t = "dict" /\ user_info.items # {}

\* The types isinstance accepts at bot.py:126 and bot.py:151.
SerializableTypes == {"str", "int", "float", "bool", "list", "dict", "none"}

-----------------------------------------------------------------------------
(* generate_answer (bot.py:226-286).                                       *)

default_error_msg == <<"Sorry, I couldn't get an answer from the backend service.">>

\* A JSON object field that is absent.
Absent == [present |-> FALSE, val |-> PyNone]
Field(val) == [present |-> TRUE, val |-> val]
\* A conversation_id field: absent, null or a string.
AbsentId == [present |-> FALSE, val |-> None]
FieldId(id) == [present |-> TRUE, val |-> id]
\* dict.get(key, default)
Get(field, default) == IF field.present THEN field.val ELSE default

\* aiohttp's ClientResponse.json(): ContentTypeError unless the response is
\* served as application/json, None for an empty body, JSONDecodeError for a
\* body that is not JSON, and the decoded value otherwise.
RespJson(resp) ==
    IF ~resp.json_ctype THEN [exc |-> "ContentTypeError", shape |-> "none"]
    ELSE IF resp.body.shape = "empty" THEN [exc |-> "none", shape |-> "null"]
    ELSE IF resp.body.shape = "not_json" THEN [exc |-> "JSONDecodeError", shape |-> "none"]
    ELSE [exc |-> "none", shape |-> resp.body.shape]

Result(answer, conversation_id) ==
    [raised |-> FALSE, answer |-> answer, conversation_id |-> conversation_id]
Raised(conversation_id) ==
    [raised |-> TRUE, answer |-> PyNone, conversation_id |-> conversation_id]

\* bot.py:255-266: the branch of a status other than 200.
NonOkStatus(resp, conversation_id) ==
    LET j == RespJson(resp)
        failure == Result(Str(default_error_msg \o <<" (Error: ", ToString(resp.status), ")">>),
                          conversation_id)
    IN  IF j.exc \in {"JSONDecodeError", "ContentTypeError"}
          THEN failure                      \* bot.py:262-263, the inner except
        ELSE IF j.shape # "object"
          \* error_body.get raises AttributeError, caught at bot.py:284
          THEN Result(Str(default_error_msg \o <<" (Unexpected Error)">>), conversation_id)
        ELSE failure

\* OkStatus with the conversation id of the body dropped.
OkStatus_KeepsId(resp, conversation_id) ==
    LET j == RespJson(resp)
    IN  IF j.exc = "ContentTypeError"
          THEN Result(Str(default_error_msg \o <<" (Client Error)">>), conversation_id)
        ELSE IF j.exc = "JSONDecodeError"
          THEN Result(Str(default_error_msg \o <<" (Invalid Response Format)">>), conversation_id)
        ELSE IF j.shape # "object"
          THEN Result(Str(default_error_msg \o <<" (Unexpected Error)">>), conversation_id)
        ELSE Result(Get(resp.body.fields.answer, Str(default_error_msg)), conversation_id)

\* bot.py:268-272: the branch of status 200.
OkStatus(resp, conversation_id) ==
    LET j == RespJson(resp)
    IN  IF j.exc = "ContentTypeError"       \* a ClientError: bot.py:277
          THEN Result(Str(default_error_msg \o <<" (Client Error)">>), conversation_id)
        ELSE IF j.exc = "JSONDecodeError"   \* bot.py:280
          THEN Result(Str(default_error_msg \o <<" (Invalid Response Format)">>), conversation_id)
        ELSE IF j.shape # "object"          \* data.get raises AttributeError: bot.py:284
          THEN Result(Str(default_error_msg \o <<" (Unexpected Error)">>), conversation_id)
        ELSE Result(Get(resp.body.fields.answer, Str(default_error_msg)),
                    Get(resp.body.fields.conversation_id, conversation_id))

\* What `outcome`, the behaviour of the network and of the remote API for one
\* POST, makes generate_answer return.
generate_answer(api_key, conversation_id, outcome) ==
    IF ~api_key
      THEN Result(Str(<<"Error: Backend API key is not configured.">>), conversation_id)
    ELSE IF outcome.kind = "ClientConnectorError"
      THEN Result(Str(default_error_msg \o <<" (Network Error)">>), conversation_id)
    ELSE IF outcome.kind = "ClientError"
      THEN Result(Str(default_error_msg \o <<" (Client Error)">>), conversation_id)
    ELSE IF outcome.kind = "TimeoutError"   \* asyncio.TimeoutError, no ClientError
      THEN Result(Str(default_error_msg \o <<" (Unexpected Error)">>), conversation_id)
    ELSE IF outcome.resp.status # 200
      THEN NonOkStatus(outcome.resp, conversation_id)
    ELSE OkStatus(outcome.resp, conversation_id)

-----------------------------------------------------------------------------
(* The store: get_user_data (bot.py:76-107), save_user_data (109-153).     *)

max_history_len_pairs == 10

\* limited_history keeping one turn less than ten pairs.
limited_history_odd(history) ==
    LET n == max_history_len_pairs * 2 - 1
    IN  IF Len(history) <= n THEN history
        ELSE SubSeq(history, Len(history) - n + 1, Len(history))

\* limited_history keeping the oldest turns instead of the newest.
limited_history_head(history) ==
    LET n == max_history_len_pairs * 2
    IN  IF Len(history) <= n THEN history ELSE SubSeq(history, 1, n)

\* history[-(max_history_len_pairs * 2):]
limited_history(history) ==
    LET n == max_history_len_pairs * 2
    IN  IF Len(history) <= n THEN history
        ELSE SubSeq(history, Len(history) - n + 1, Len(history))

\* {k: v for k, v in user_info.items() if isinstance(v, (...))}
serializable_user_info(user_info) ==
    Dict({kv \in user_info.items : kv[2].t \in SerializableTypes})

\* The variant test of bot.py:85 and bot.py:118.
UseMongo(storage_type, collection) ==
    storage_type = "mongodb" /\ collection # None

\* bot.py:83
default_data == [history |-> <<>>, conversation_id |-> None, user_info |-> NoneInfo]

NoDoc == [present |-> FALSE, conversation_history |-> <<>>,
          conversation_id |-> None, user_info |-> NoneInfo]
NoRecord == [present |-> FALSE, history |-> 0,
             conversation_id |-> None, user_info |-> NoneInfo]

\* mongo_get answering from a stale copy of the document when find_one raises.
mongo_get_stale(doc, ok) ==
    IF doc.present
      THEN [history |-> doc.conversation_history,
            conversation_id |-> doc.conversation_id,
            user_info |-> doc.user_info]
    ELSE default_data

\* bot.py:88-99: what find_one's answer makes get_user_data return; `ok` is
\* FALSE when find_one raises.
mongo_get(doc, ok) ==
    IF ~ok THEN default_data
    ELSE IF doc.present
      THEN [history |-> doc.conversation_history,
            conversation_id |-> doc.conversation_id,
            user_info |-> doc.user_info]
    ELSE default_data

\* bot.py:120-137: the document after update_one with upsert; `ok` is FALSE
\* when update_one raises.  $set leaves user_info alone unless it is given.
\* `limited` is the value of limited_history when save_user_data was called.
mongo_set(doc, limited, conversation_id, user_info, ok) ==
    IF ~ok THEN doc
    ELSE [present |-> TRUE,
          conversation_history |-> limited,
          conversation_id |-> conversation_id,
          user_info |-> IF Truthy(user_info)
                          THEN serializable_user_info(user_info)
                          ELSE doc.user_info]

\* bot.py:142-152: the record after the in-memory update; `ref` names the
\* new list object made by the slice at bot.py:116.
memory_set(rec, ref, conversation_id, user_info) ==
    [present |-> TRUE,
     history |-> ref,
     conversation_id |-> conversation_id,
     user_info |-> IF Truthy(user_info)
                     THEN serializable_user_info(user_info)
                     ELSE rec.user_info]

(* The mutable world a coroutine segment works on.  A segment is a function *)
(* from world to world; an action commits the world its segment returns.    *)
World == [mem |-> in_memory_storage, heap |-> heap, mongo |-> mongo,
          pl |-> pl, ops |-> <<>>, past |-> past]

Referenced(w) ==
    ({w.mem[k].history : k \in Keys} \cup {w.pl[p].history : p \in Slots}) \ {0}

\* A list object that nothing names.
Alloc(w) ==
    CHOOSE o \in ObjIds \ Referenced(w) : \A o2 \in ObjIds \ Referenced(w) : o <= o2

\* Lists that nothing names any more are garbage.
Collect(w) ==
    [w EXCEPT !.heap = [o \in ObjIds |-> IF o \in Referenced(w) THEN w.heap[o] ELSE <<>>]]

Log(w, entry) ==
    [w EXCEPT !.ops = Append(@, entry),
              !.past.variants = IF entry.kind \in {"read", "write"}
                                  THEN @ \cup {entry.via} ELSE @]

\* bot.py:100-107: the in-memory read.  The returned "history" is the stored
\* list itself, or the fresh list of default_data when the user has no record.
memory_get(w, key) ==
    IF w.mem[key].present
      THEN [w |-> w,
            data |-> [history |-> w.mem[key].history,
                      conversation_id |-> w.mem[key].conversation_id,
                      user_info |-> w.mem[key].user_info]]
    ELSE LET o == Alloc(w)
         IN  [w |-> [w EXCEPT !.heap[o] = <<>>],
              data |-> [history |-> o, conversation_id |-> None, user_info |-> NoneInfo]]

-----------------------------------------------------------------------------
(* initialize_storage (bot.py:41-72), run by on_ready (bot.py:291-300).    *)

\* initialize_storage_start falling back to memory when the URI is missing.
initialize_storage_start_fallback(storage_type, uri) ==
    IF storage_type = "mongodb" /\ uri
      THEN [STORAGE_TYPE |-> storage_type, proc |-> "running", connect |-> TRUE]
    ELSE [STORAGE_TYPE |-> "memory", proc |-> "running", connect |-> FALSE]

\* bot.py:42-50 and 68-72: initialize_storage up to its await.
initialize_storage_start(storage_type, uri) ==
    IF storage_type = "mongodb"
      THEN IF ~uri
             THEN [STORAGE_TYPE |-> storage_type, proc |-> "exited",
                   connect |-> FALSE]                        \* exit(1)
           ELSE [STORAGE_TYPE |-> storage_type, proc |-> "running",
                 connect |-> TRUE]                           \* await ... command('ismaster')
    ELSE IF storage_type = "memory"
      THEN [STORAGE_TYPE |-> "memory", proc |-> "running", connect |-> FALSE]
    ELSE [STORAGE_TYPE |-> "memory", proc |-> "running", connect |-> FALSE]

\* initialize_storage_finish with the except clauses leaving STORAGE_TYPE alone.
initialize_storage_finish_keeps_type(storage_type, outcome) ==
    IF outcome = "ok"
      THEN [STORAGE_TYPE |-> storage_type, mongo_client |-> "client",
            mongo_collection |-> "collection", fellBack |-> FALSE]
    ELSE [STORAGE_TYPE |-> storage_type, mongo_client |-> None,
          mongo_collection |-> None, fellBack |-> TRUE]

\* bot.py:52-67: initialize_storage after its await; `outcome` is "ok" or the
\* exception the ismaster command raised.
initialize_storage_finish(storage_type, outcome) ==
    IF outcome = "ok"
      THEN [STORAGE_TYPE |-> storage_type, mongo_client |-> "client",
            mongo_collection |-> "collection", fellBack |-> FALSE]
    ELSE [STORAGE_TYPE |-> "memory", mongo_client |-> None,
          mongo_collection |-> None, fellBack |-> TRUE]

ConnectOutcomes == {"ok", "ConnectionFailure", "ConfigurationError", "Exception"}

\* The gateway dispatches on_ready, at the first connection and again at each
\* reconnection; initialize_storage runs to its await, or to its end.
OnReady ==
    /\ proc = "running"
    /\ init.pc = "idle"
    /\ LET r == initialize_storage_start(STORAGE_TYPE, MONGODB_URI)
       IN  /\ STORAGE_TYPE' = r.STORAGE_TYPE
           /\ proc' = r.proc
           /\ mongo_client' = IF r.connect THEN "client" ELSE mongo_client
           /\ init' = [pc |-> IF r.connect THEN "connecting" ELSE "idle", ran |-> TRUE]
    /\ ops' = <<>>
    /\ UNCHANGED <<MONGODB_URI, API_KEY, mongo_collection, in_memory_storage, heap,
                   mongo, pl, nEvents, faults, limits, call, past>>

\* The ismaster command returns or raises.
ConnectDone(outcome) ==
    /\ proc = "running"
    /\ init.pc = "connecting"
    /\ LET r == initialize_storage_finish(STORAGE_TYPE, outcome)
       IN  /\ STORAGE_TYPE' = r.STORAGE_TYPE
           /\ mongo_client' = r.mongo_client
           /\ mongo_collection' = r.mongo_collection
           /\ past' = [past EXCEPT !.fellBack = @ \/ r.fellBack]
    /\ init' = [init EXCEPT !.pc = "idle"]
    /\ ops' = <<>>
    /\ UNCHANGED <<MONGODB_URI, API_KEY, in_memory_storage, heap, mongo, proc, pl,
                   nEvents, faults, limits, call>>

-----------------------------------------------------------------------------
(* on_message (bot.py:310-401).                                            *)

\* The behaviour of the network when no request is made.
NoOutcome == [kind |-> "none"]

\* A free slot.  `pending` is the update update_one was given; `late`,
\* `view`, `rivals` and `outcome` are history fields: whether the pending
\* store call was made after a fallback, the history the coroutine read, the
\* questions of the coroutines whose write overtook it, and how its POST ended.
\* `answer_chunks` and `k` are the list and the position of the for loop of
\* bot.py:392; `attempts` is the history of its sends.
IdlePl == [pc |-> "idle", user |-> 0, question |-> PyNone, history |-> 0,
           conversation_id |-> None, answer |-> PyNone,
           new_conversation_id |-> None, pending |-> <<>>,
           late |-> FALSE, view |-> <<>>, rivals |-> {}, outcome |-> NoOutcome,
           answer_chunks |-> <<>>, k |-> 0, attempts |-> <<>>]

KeyOf(w, p) == user_id_str(w.pl[p].user)

\* bot.py:354-363: the author's fields, None values dropped.
user_info_dict(user) ==
    LET fields == {<<"id", [t |-> "int", v |-> <<ToString(user)>>]>>,
                   <<"name", Str(<<"name", ToString(user)>>)>>,
                   <<"discriminator", Str(<<"0">>)>>,
                   <<"display_name", Str(<<"name", ToString(user)>>)>>,
                   <<"is_bot", [t |-> "bool", v |-> <<"False">>]>>}
    IN  Dict({kv \in fields : kv[2].t # "none"})

\* A write of `p` reaches the store: every other coroutine of the same user
\* that has read and not yet written has now been overtaken by p.
Overtake(w, p) ==
    [w EXCEPT !.pl = [q \in Slots |->
        IF q # p /\ w.pl[q].user = w.pl[p].user /\ w.pl[q].pc \in {"post", "update_one"}
          THEN [w.pl[q] EXCEPT !.rivals = @ \cup {w.pl[p].question}]
          ELSE w.pl[q]]]

\* What the store holds for `key`, as values.
StoredMemory(w, key) ==
    [present |-> w.mem[key].present,
     history |-> IF w.mem[key].present THEN w.heap[w.mem[key].history] ELSE <<>>,
     conversation_id |-> w.mem[key].conversation_id,
     user_info |-> w.mem[key].user_info]
StoredMongo(w, key) ==
    [present |-> w.mongo[key].present,
     history |-> w.mongo[key].conversation_history,
     conversation_id |-> w.mongo[key].conversation_id,
     user_info |-> w.mongo[key].user_info]

WriteEntry(w, p, via, ok, before, late) ==
    [kind |-> "write", via |-> via, key |-> KeyOf(w, p), ok |-> ok, slot |-> p,
     before |-> before, late |-> late,
     conversation_id |-> w.pl[p].new_conversation_id,
     read_id |-> w.pl[p].conversation_id,
     outcome |-> w.pl[p].outcome,
     view |-> w.pl[p].view,
     uturn |-> Turn("user", w.pl[p].question),
     aturn |-> Turn("assistant", w.pl[p].answer),
     rivals |-> w.pl[p].rivals]

\* bot.py:109-153 as called at bot.py:388, up to the await of update_one or,
\* in memory, to its end.
save_user_data(w, p) ==
    LET key     == KeyOf(w, p)
        limited == limited_history(w.heap[w.pl[p].history])
    IN  IF UseMongo(STORAGE_TYPE, mongo_collection)
          THEN Collect([w EXCEPT !.pl[p].pc = "update_one",
                                 !.pl[p].pending = limited,
                                 !.pl[p].late = w.past.fellBack,
                                 !.pl[p].history = 0])
        ELSE LET w1 == [w EXCEPT !.pl[p].history = 0, !.mem[key].history = 0]
                 o  == Alloc(w1)
                 w2 == [w1 EXCEPT !.heap[o] = limited,
                                  !.mem[key] = memory_set(w.mem[key], o,
                                                   w.pl[p].new_conversation_id,
                                                   user_info_dict(w.pl[p].user)),
                                  !.pl[p].pc = "send"]
             IN  Collect(Overtake(Log(w2, WriteEntry(w2, p, "memory", TRUE,
                                                     StoredMemory(w, key), w.past.fellBack)), p))

\* bot.py:381-388: generate_answer has returned `res`.
AfterAnswer(w, p, res) ==
    IF res.raised
      THEN Collect([w EXCEPT !.pl[p] = IdlePl,
                             !.ops = Append(@, [kind |-> "raised"])])
    ELSE LET ref == w.pl[p].history
             w1  == [w EXCEPT !.heap[ref] = Append(@, Turn("assistant", res.answer)),
                              !.pl[p].answer = res.answer,
                              !.pl[p].new_conversation_id = res.conversation_id]
         IN  save_user_data(w1, p)

\* bot.py:369-380: get_user_data has returned the list `ref` and `conversation_id`.
AfterRead(w, p, ref, conversation_id) ==
    LET w1 == [w EXCEPT !.pl[p].view = w.heap[ref],
                        !.pl[p].history = ref,
                        !.pl[p].conversation_id = conversation_id,
                        !.heap[ref] = Append(@, Turn("user", w.pl[p].question))]
    IN  IF ~API_KEY
          THEN AfterAnswer(w1, p, generate_answer(API_KEY, conversation_id, NoOutcome))
        ELSE [w1 EXCEPT !.pl[p].pc = "post"]

ReadEntry(key, via, ok, history, conversation_id, user_info, slot, late) ==
    [kind |-> "read", via |-> via, key |-> key, ok |-> ok, slot |-> slot, late |-> late,
     data |-> [history |-> history, conversation_id |-> conversation_id,
               user_info |-> user_info]]

\* bot.py:76-107 as called at bot.py:368, up to the await of find_one or, in
\* memory, to its end.
get_user_data(w, p) ==
    LET key == KeyOf(w, p)
    IN  IF UseMongo(STORAGE_TYPE, mongo_collection)
          THEN [w EXCEPT !.pl[p].pc = "find_one", !.pl[p].late = w.past.fellBack]
        ELSE LET r  == memory_get(w, key)
                 w1 == Log(r.w, ReadEntry(key, "memory", TRUE, r.w.heap[r.data.history],
                                          r.data.conversation_id, r.data.user_info, p,
                                          w.past.fellBack))
             IN  AfterRead(w1, p, r.data.history, r.data.conversation_id)

Commit(w) ==
    /\ in_memory_storage' = w.mem
    /\ heap' = w.heap
    /\ mongo' = w.mongo
    /\ pl' = w.pl
    /\ ops' = w.ops
    /\ past' = w.past

-----------------------------------------------------------------------------
(* The environment: what the network and the remote API can do to a POST.  *)

AnswerFields == {Absent, Field(PyNone), Field(Str(<<>>)), Field(Str(<<"answer">>))}
IdFields == {AbsentId, FieldId(None), FieldId("c1"), FieldId("c2")}
NoFields == [answer |-> Absent, conversation_id |-> AbsentId, detail |-> FALSE]

\* Response bodies: not JSON, empty, a JSON value that is no object, an object.
Bodies ==
    {[shape |-> sh, fields |-> NoFields] : sh \in {"not_json", "empty", "array"}}
    \cup {[shape |-> "object",
           fields |-> [answer |-> a, conversation_id |-> c, detail |-> d]] :
             a \in AnswerFields, c \in IdFields, d \in BOOLEAN}

Statuses == {200, 201, 404, 500}
Responses == [status : Statuses, json_ctype : BOOLEAN, body : Bodies]
NoResponse == [status |-> 0, json_ctype |-> FALSE,
               body |-> [shape |-> "empty", fields |-> NoFields]]

Outcomes ==
    {[kind |-> k, resp |-> NoResponse] :
        k \in {"ClientConnectorError", "ClientError", "TimeoutError"}}
    \cup {[kind |-> "response", resp |-> r] : r \in Responses}

\* The API answering as section 6 of its contract says.
Nominal(outcome) ==
    /\ outcome.kind = "response"
    /\ outcome.resp.status = 200
    /\ outcome.resp.json_ctype
    /\ outcome.resp.body.shape = "object"
    /\ outcome.resp.body.fields.answer = Field(Str(<<"answer">>))
    /\ outcome.resp.body.fields.conversation_id \in {AbsentId, FieldId("c2")}
    /\ ~outcome.resp.body.fields.detail

Response(status, json_ctype, shape, answer, conversation_id) ==
    [kind |-> "response",
     resp |-> [status |-> status, json_ctype |-> json_ctype,
               body |-> [shape |-> shape,
                         fields |-> [answer |-> answer, conversation_id |-> conversation_id,
                                     detail |-> FALSE]]]]

\* The outcomes the pipelines of Spec meet: the nominal ones, a failure that
\* generate_answer reports, an empty answer and an answer that is no string.
\* AskSpec below runs generate_answer on all of Outcomes.
PipelineOutcomes ==
    {o \in Outcomes : Nominal(o)}
    \cup {Response(500, FALSE, "not_json", Absent, AbsentId),
          Response(200, TRUE, "object", Field(Str(<<>>)), AbsentId),
          Response(200, TRUE, "object", Field(PyNone), FieldId("c2"))}

-----------------------------------------------------------------------------
(* Inbound events (bot.py:311-348).                                        *)

\* An event: who wrote it, whether the command parser accepts it, where it
\* was written, and its text as a mention prefix and a rest.
Events ==
    {[self |-> TRUE,  command |-> FALSE, channel |-> "dm",    mention |-> "none",  rest |-> "text"],
     [self |-> FALSE, command |-> TRUE,  channel |-> "guild", mention |-> "none",  rest |-> "text"],
     [self |-> FALSE, command |-> FALSE, channel |-> "dm",    mention |-> "none",  rest |-> "text"],
     [self |-> FALSE, command |-> FALSE, channel |-> "dm",    mention |-> "none",  rest |-> "empty"],
     [self |-> FALSE, command |-> FALSE, channel |-> "guild", mention |-> "plain", rest |-> "text"],
     [self |-> FALSE, command |-> FALSE, channel |-> "guild", mention |-> "nick",  rest |-> "text"],
     [self |-> FALSE, command |-> FALSE, channel |-> "guild", mention |-> "plain", rest |-> "empty"],
     [self |-> FALSE, command |-> FALSE, channel |-> "guild", mention |-> "none",  rest |-> "text"],
     [self |-> FALSE, command |-> FALSE, channel |-> "group", mention |-> "plain", rest |-> "text"]}

MentionText(mention) ==
    IF mention = "plain" THEN <<"<@bot>">>
    ELSE IF mention = "nick" THEN <<"<@!bot>">>
    ELSE <<>>

\* classify taking every message of a guild channel, mentioned or not.
classify_any_guild(ev, text) ==
    LET rest    == IF ev.rest = "empty" THEN <<>> ELSE text
        content == MentionText(ev.mention) \o rest
    IN  IF ev.self THEN [do |-> "ignore", content |-> <<>>]
        ELSE IF ev.command THEN [do |-> "command", content |-> <<>>]
        ELSE LET should == ev.channel \in {"dm", "guild"}
                 final  == IF ev.channel = "guild" THEN rest ELSE content
             IN  IF ~should THEN [do |-> "ignore", content |-> <<>>]
                 ELSE IF final = <<>> THEN [do |-> "prompt", content |-> <<>>]
                 ELSE [do |-> "process", content |-> final]

\* bot.py:312-348: what on_message does with an event whose rest is `text`.
classify(ev, text) ==
    LET rest    == IF ev.rest = "empty" THEN <<>> ELSE text
        content == MentionText(ev.mention) \o rest            \* bot.py:325
    IN  IF ev.self THEN [do |-> "ignore", content |-> <<>>]
        ELSE IF ev.command THEN [do |-> "command", content |-> <<>>]
        ELSE LET dm     == ev.channel = "dm"
                 match  == ev.channel = "guild" /\ ev.mention \in {"plain", "nick"}
                 should == dm \/ match
                 final  == IF ~dm /\ match THEN rest ELSE content   \* bot.py:338
             IN  IF ~should THEN [do |-> "ignore", content |-> <<>>]
                 ELSE IF final = <<>> THEN [do |-> "prompt", content |-> <<>>]
                 ELSE [do |-> "process", content |-> final]

RECURSIVE SumTo(_, _)
SumTo(f, n) == IF n = 0 THEN 0 ELSE f[n] + SumTo(f, n - 1)
TotalEvents == SumTo(nEvents, NumUsers)

Frame == UNCHANGED <<STORAGE_TYPE, MONGODB_URI, API_KEY, mongo_client,
                     mongo_collection, proc, init, limits, call>>

\* An event arrives and on_message runs to its first await that reaches the
\* store or the API, or to its end when the event is not to be processed.
\* (The await of channel.typing() at bot.py:367 touches no state of the bot:
\* a coroutine suspended there is an event that arrives later.)  Slots are
\* interchangeable: the coroutine takes the first free one.  The step's
\* effects begin with the event itself.
Arrive(p, u, ev) ==
    /\ proc = "running"
    /\ p <= limits.slots
    /\ pl[p].pc = "idle"
    /\ \A q \in 1..(p - 1) : pl[q].pc # "idle"
    /\ LET c == classify(ev, <<"question", ToString(nEvents[u] + 1)>>)
       IN  IF c.do = "process"
             THEN /\ TotalEvents < limits.maxEvents
                  /\ nEvents' = [nEvents EXCEPT ![u] = @ + 1]
                  /\ Commit(get_user_data(
                        [World EXCEPT !.pl[p] = [IdlePl EXCEPT !.pc = "typing", !.user = u,
                                                               !.question = Str(c.content)],
                                      !.ops = <<[kind |-> "event", ev |-> ev]>>],
                        p))
           ELSE /\ ops' = <<[kind |-> "event", ev |-> ev]>>
                          \o (IF c.do = "ignore" THEN <<>>
                              ELSE <<[kind |-> "send", what |-> c.do]>>)
                /\ UNCHANGED <<pl, nEvents, in_memory_storage, heap, mongo, past>>
    /\ UNCHANGED faults
    /\ Frame

\* find_one returns the document, or raises (bot.py:88-99).
FindOneDone(p, ok) ==
    /\ proc = "running"
    /\ pl[p].pc = "find_one"
    /\ ok \/ faults < limits.maxFaults
    /\ faults' = IF ok THEN faults ELSE faults + 1
    /\ LET key  == KeyOf(World, p)
           data == mongo_get(mongo[key], ok)
           o    == Alloc(World)
           w1   == Log([World EXCEPT !.heap[o] = data.history],
                       ReadEntry(key, "mongodb", ok, data.history,
                                 data.conversation_id, data.user_info, p, pl[p].late))
       IN  Commit(AfterRead(w1, p, o, data.conversation_id))
    /\ UNCHANGED nEvents
    /\ Frame

\* The POST ends with `outcome` (bot.py:253-286).  What generate_answer
\* returned and the world the coroutine goes on in are bound once.
PostDone(p, outcome) ==
    /\ proc = "running"
    /\ pl[p].pc = "post"
    /\ Nominal(outcome) \/ faults < limits.maxFaults
    /\ faults' = IF Nominal(outcome) THEN faults ELSE faults + 1
    /\ \E res \in {generate_answer(API_KEY, pl[p].conversation_id, outcome)},
          w0 \in {[World EXCEPT !.pl[p].outcome = outcome]} :
            \E w \in {AfterAnswer(w0, p, res)} : Commit(w)
    /\ UNCHANGED nEvents
    /\ Frame

\* update_one returns, or raises (bot.py:133-140).
UpdateOneDone(p, ok) ==
    /\ proc = "running"
    /\ pl[p].pc = "update_one"
    /\ ok \/ faults < limits.maxFaults
    /\ faults' = IF ok THEN faults ELSE faults + 1
    /\ LET key == KeyOf(World, p)
           w1  == [World EXCEPT !.mongo[key] =
                      mongo_set(mongo[key], pl[p].pending, pl[p].new_conversation_id,
                                user_info_dict(pl[p].user), ok),
                                !.pl[p].pc = "send"]
           w2  == Log(w1, WriteEntry(w1, p, "mongodb", ok, StoredMongo(World, key), pl[p].late))
       IN  Commit(IF ok THEN Overtake(w2, p) ELSE w2)
    /\ UNCHANGED nEvents
    /\ Frame

\* bot.py:390-401: the answer is chunked and sent, and on_message ends.
\* chunk_string raises TypeError on an answer that is no str, and returns no
\* chunk for the empty string.
Send(p) ==
    /\ proc = "running"
    /\ pl[p].pc = "send"
    /\ LET a == pl[p].answer
       IN  ops' = IF ~IsStr(a) THEN <<[kind |-> "raised"]>>
                  ELSE IF a.v = <<>> THEN <<>>
                  ELSE <<[kind |-> "send", what |-> "answer"]>>
    /\ pl' = [pl EXCEPT ![p] = IdlePl]
    /\ UNCHANGED <<in_memory_storage, heap, mongo, faults, past, nEvents>>
    /\ Frame

-----------------------------------------------------------------------------
(* The initial states and the specification.                               *)

\* A document a previous run of the bot has left in the collection: `n`
\* complete pairs.
PriorDoc(u, n) ==
    [present |-> TRUE,
     conversation_history |->
        [i \in 1..(2 * n) |->
            IF i % 2 = 1 THEN Turn("user", Str(<<"earlier question", ToString((i + 1) \div 2)>>))
            ELSE Turn("assistant", Str(<<"answer">>))],
     conversation_id |-> "c1",
     user_info |-> serializable_user_info(user_info_dict(u))]

\* The first user may have talked to an earlier run of the bot.
PriorDocs(u) == IF u = 1 THEN {NoDoc, PriorDoc(u, max_history_len_pairs)} ELSE {NoDoc}

InitConfig ==
    /\ STORAGE_TYPE \in {"memory", "mongodb", "redis"}
    /\ MONGODB_URI \in BOOLEAN
    /\ STORAGE_TYPE # "mongodb" => ~MONGODB_URI
    /\ API_KEY \in BOOLEAN
    /\ mongo_client = None
    /\ mongo_collection = None
    /\ in_memory_storage = [k \in Keys |-> NoRecord]
    /\ heap = [o \in ObjIds |-> <<>>]
    /\ proc = "running"
    /\ init = [pc |-> "idle", ran |-> FALSE]
    /\ pl = [p \in Slots |-> IdlePl]
    /\ nEvents = [u \in Users |-> 0]
    /\ faults = 0
    /\ ops = <<>>
    /\ past = [fellBack |-> FALSE, variants |-> {}, configured |-> STORAGE_TYPE]
    /\ call = NoCall

Init ==
    /\ InitConfig
    /\ mongo \in {m \in [Keys -> UNION {PriorDocs(u) : u \in Users}] :
                    \A u \in Users : m[user_id_str(u)] \in PriorDocs(u)}
    /\ (STORAGE_TYPE # "mongodb" \/ ~MONGODB_URI) => \A k \in Keys : mongo[k] = NoDoc
    /\ limits = [maxEvents |-> MaxEvents, maxFaults |-> MaxFaults, slots |-> MaxPipelines]

Next ==
    \/ OnReady
    \/ \E outcome \in ConnectOutcomes : ConnectDone(outcome)
    \/ \E p \in Slots, u \in Users, ev \in Events : Arrive(p, u, ev)
    \/ \E p \in Slots, ok \in BOOLEAN : FindOneDone(p, ok)
    \/ \E p \in Slots, outcome \in PipelineOutcomes : PostDone(p, outcome)
    \/ \E p \in Slots, ok \in BOOLEAN : UpdateOneDone(p, ok)
    \/ \E p \in Slots : Send(p)

Spec == Init /\ [][Next]_vars

-----------------------------------------------------------------------------
(* generate_answer on its own: every outcome of the POST, with and without *)
(* an API key.                                                             *)

InitFixed ==
    /\ in_memory_storage = [k \in Keys |-> NoRecord]
    /\ heap = [o \in ObjIds |-> <<>>]
    /\ mongo = [k \in Keys |-> NoDoc]
    /\ proc = "running"
    /\ pl = [p \in Slots |-> IdlePl]
    /\ nEvents = [u \in Users |-> 0]
    /\ faults = 0
    /\ ops = <<>>
    /\ past = [fellBack |-> FALSE, variants |-> {}, configured |-> STORAGE_TYPE]
    /\ call = NoCall

AskInit ==
    /\ mongo_client = None
    /\ mongo_collection = None
    /\ init = [pc |-> "idle", ran |-> FALSE]
    /\ STORAGE_TYPE = "memory"
    /\ MONGODB_URI = FALSE
    /\ API_KEY \in BOOLEAN
    /\ limits = [maxEvents |-> 0, maxFaults |-> 0, slots |-> 0]
    /\ InitFixed

\* A caller awaits generate_answer(question, messages, conversation_id) and
\* the POST, when one is made, ends with `outcome`.
AskCall(conversation_id, outcome) ==
    /\ ops' = <<[kind |-> "ask", api_key |-> API_KEY,
                 conversation_id |-> conversation_id, outcome |-> outcome,
                 res |-> generate_answer(API_KEY, conversation_id, outcome)]>>
    /\ UNCHANGED <<STORAGE_TYPE, MONGODB_URI, API_KEY, mongo_client, mongo_collection,
                   in_memory_storage, heap, mongo, proc, init, pl, nEvents, faults,
                   limits, call, past>>

AskNext == \E conversation_id \in {None, "c1"}, outcome \in Outcomes :
               AskCall(conversation_id, outcome)

AskSpec == AskInit /\ [][AskNext]_vars

Asks == {e \in Range(ops) : e.kind = "ask"}

Is2xx(status) == status >= 200 /\ status <= 299

\* The body is a JSON object (bodies are told apart by shape, not by how they are served).
IsObject(outcome) == outcome.kind = "response" /\ outcome.resp.body.shape = "object"

\* A POST that succeeded: a 2xx response whose body is a JSON object of the
\* expected shape, an answer that is absent being allowed (it has a default).
Succeeded(e) ==
    /\ e.api_key
    /\ e.outcome.kind = "response"
    /\ Is2xx(e.outcome.resp.status)
    /\ IsObject(e.outcome)
    /\ LET a == e.outcome.resp.body.fields.answer IN a.present => IsStr(a.val)

\* C8: generate_answer never raises; for every outcome of the remote call it
\* returns a result whose answer is a string, and in every failure outcome
\* the returned conversation id is the one passed in.
C8_NeverRaises ==
    \A e \in Asks :
        /\ ~e.res.raised
        /\ IsStr(e.res.answer)
        /\ ~Succeeded(e) => e.res.conversation_id = e.conversation_id

\* C9: for every response with a non-2xx status and every shape of body, the
\* answer is a failure text that contains the status code, and the returned
\* conversation id is the one passed in.
C9_StatusInAnswer ==
    \A e \in Asks :
        (e.api_key /\ e.outcome.kind = "response" /\ ~Is2xx(e.outcome.resp.status))
        => /\ IsStr(e.res.answer)
           /\ ToString(e.outcome.resp.status) \in Range(e.res.answer.v)
           /\ e.res.conversation_id = e.conversation_id

\* What C10 expects of a result: the body's answer and conversation_id, with their defaults.
BodyResult(e) ==
    /\ ~e.res.raised
    /\ e.res.answer = (IF e.outcome.resp.body.fields.answer.present
                         THEN e.outcome.resp.body.fields.answer.val
                         ELSE Str(<<"Sorry, I couldn't get an answer from the backend service.">>))
    /\ e.res.conversation_id = (IF e.outcome.resp.body.fields.conversation_id.present
                                  THEN e.outcome.resp.body.fields.conversation_id.val
                                  ELSE e.conversation_id)

\* C10 as claimed: for every 2xx response whose body is a well-formed JSON
\* object, the result is the body's answer (a generic failure text when it is
\* absent) and the body's conversation_id (the one passed in when it is absent).
C10_Any2xx ==
    \A e \in Asks :
        (e.api_key /\ e.outcome.kind = "response" /\ Is2xx(e.outcome.resp.status)
           /\ IsObject(e.outcome))
        => BodyResult(e)

\* C10 as amended: the result is the body's answer and conversation_id (with
\* their defaults) for every response of status exactly 200 that is served as
\* JSON and whose body is a JSON object; a response of any other 2xx status
\* is reported as a failure: the answer is a failure text and the
\* conversation id is the one that was passed in.
C10_Status200 ==
    \A e \in Asks :
        (e.api_key /\ e.outcome.kind = "response" /\ Is2xx(e.outcome.resp.status))
        => /\ (e.outcome.resp.status = 200 /\ e.outcome.resp.json_ctype /\ IsObject(e.outcome))
                => BodyResult(e)
           /\ e.outcome.resp.status # 200
                => /\ ~e.res.raised
                   /\ IsStr(e.res.answer)
                   /\ Len(e.res.answer.v) > 1
                   /\ e.res.answer.v[1] = "Sorry, I couldn't get an answer from the backend service."
                   /\ e.res.conversation_id = e.conversation_id

\* A 200 response whose object carries an answer and a new conversation id has been handled.
C10_Witness ==
    \E e \in Asks :
        /\ e.api_key /\ e.outcome.kind = "response" /\ e.outcome.resp.status = 200
        /\ e.outcome.resp.json_ctype /\ IsObject(e.outcome)
        /\ e.outcome.resp.body.fields.answer = Field(Str(<<"answer">>))
        /\ e.outcome.resp.body.fields.conversation_id = FieldId("c2")
        /\ e.conversation_id = "c1"
        /\ e.res.conversation_id = "c2"

-----------------------------------------------------------------------------
(* The store under the pipelines of Spec.                                  *)

StoreOps == {e \in Range(ops) : e.kind \in {"read", "write"}}

\* What the store holds for the key of entry `e`, in the variant `e` went to.
StoredNow(e) ==
    IF e.via = "memory" THEN StoredMemory(World, e.key) ELSE StoredMongo(World, e.key)

\* C4: in the durable variant a read that fails returns the default record
\* (empty history, null conversation id, null user info), a write that fails
\* leaves the stored record of the user unchanged, and neither failure is
\* raised to on_message: the coroutine goes on towards its reply.
C4_DurableFailures ==
    \A e \in StoreOps :
        (e.via = "mongodb" /\ ~e.ok)
        => /\ \A x \in Range(ops) : x.kind # "raised"
           /\ e.kind = "read"
                => /\ e.data = [history |-> <<>>, conversation_id |-> None,
                                user_info |-> NoneInfo]
                   /\ pl[e.slot].pc \in {"post", "update_one", "send"}
           /\ e.kind = "write"
                => /\ StoredNow(e) = e.before
                   /\ pl[e.slot].pc = "send"

\* update_one has failed for a user whose document exists and would have changed.
C4_Witness ==
    \E e \in StoreOps :
        /\ e.kind = "write" /\ e.via = "mongodb" /\ ~e.ok
        /\ e.before.present
        /\ e.before.conversation_id # e.conversation_id
        /\ pl[e.slot].pc = "send"

\* C5: when the durable store cannot be reached during initialization, the
\* volatile variant is selected with no durable handle, the process keeps
\* running, and every read and write made from then on succeeds on the
\* in-memory dict.
C5_FallbackToVolatile ==
    past.fellBack
    => /\ STORAGE_TYPE = "memory"
       /\ mongo_client = None
       /\ mongo_collection = None
       /\ proc = "running"
       /\ \A e \in StoreOps : e.late => (e.via = "memory" /\ e.ok)

\* After a fallback a coroutine has read the record an earlier one wrote, both in memory.
C5_Witness ==
    /\ past.fellBack
    /\ past.configured = "mongodb"
    /\ \E e \in StoreOps :
        /\ e.kind = "read" /\ e.late /\ e.via = "memory" /\ e.ok
        /\ e.data.history # <<>>

\* C6 as claimed: once initialization has run without a connection string,
\* the process is running on the volatile variant.
C6_FallsBackWithoutUri ==
    (init.ran /\ ~MONGODB_URI) => (proc = "running" /\ STORAGE_TYPE = "memory")

\* C6 as amended: when the storage kind is durable and no connection string
\* is configured, initialization ends the process (exit status 1): there is
\* no fallback, and no event is served afterwards.  This is the only way the
\* model's process ends.
C6_ExitsWithoutUri ==
    /\ (past.configured = "mongodb" /\ ~MONGODB_URI /\ init.ran)
         => /\ proc = "exited"
            /\ STORAGE_TYPE = "mongodb"
            /\ ~past.fellBack
            /\ ops = <<>>
    /\ proc = "exited" => (past.configured = "mongodb" /\ ~MONGODB_URI /\ init.ran)

\* The process has exited in initialize_storage, while a message was being handled.
C6_Witness ==
    /\ proc = "exited"
    /\ past.configured = "mongodb"
    /\ ~MONGODB_URI
    /\ \E p \in Slots : pl[p].pc = "post"

\* C7: every store read and write of the process lifetime goes to one and
\* the same variant.
C7_OneVariant == Cardinality(past.variants) <= 1

-----------------------------------------------------------------------------
(* The in-memory variant on its own, over longer behaviours: one coroutine *)
(* at a time for more events than the cap has pairs, or two coroutines     *)
(* racing.                                                                 *)

MemoryInit ==
    /\ mongo_client = None
    /\ mongo_collection = None
    /\ init = [pc |-> "idle", ran |-> FALSE]
    /\ STORAGE_TYPE = "memory"
    /\ MONGODB_URI = FALSE
    /\ API_KEY = TRUE
    /\ limits \in {[maxEvents |-> max_history_len_pairs + 1, maxFaults |-> 0, slots |-> 1],
                   [maxEvents |-> MaxEvents + 1, maxFaults |-> 0, slots |-> MaxPipelines]}
    /\ InitFixed

MemoryNext ==
    \/ OnReady
    \/ \E p \in Slots, u \in Users, ev \in Events : Arrive(p, u, ev)
    \/ \E p \in Slots, outcome \in PipelineOutcomes : PostDone(p, outcome)
    \/ \E p \in Slots : Send(p)

MemorySpec == MemoryInit /\ [][MemoryNext]_vars

\* C1: in every reachable state the history the store holds for a user has
\* at most 20 turns, in the in-memory dict and in the collection.
C1_AtMostTwentyTurns ==
    \A k \in Keys :
        /\ Len(StoredMemory(World, k).history) <= 20
        /\ Len(StoredMongo(World, k).history) <= 20

\* The last n turns of a history.
LastTurns(history, n) ==
    IF Len(history) <= n THEN history
    ELSE [i \in 1..n |-> history[Len(history) - n + i]]

\* C2: when two coroutines of one user have both read the record before
\* either writes, what the later writer stores is its own view (the history
\* it read, then its user turn, then its assistant turn, capped at 20 turns)
\* and holds no turn of the earlier writer.
C2_LastWriteWins ==
    \A e \in StoreOps :
        (e.kind = "write" /\ e.ok /\ e.rivals # {})
        => /\ StoredNow(e).history = LastTurns(e.view \o <<e.uturn, e.aturn>>, 20)
           /\ \A t \in Range(StoredNow(e).history) :
                ~(t.role = "user" /\ t.content \in e.rivals)

-----------------------------------------------------------------------------
(* save_user_data followed at once by get_user_data, on every stored       *)
(* record, in either variant once it is established.                       *)

StoreInit ==
    /\ init = [pc |-> "idle", ran |-> TRUE]
    /\ STORAGE_TYPE \in {"memory", "mongodb"}
    /\ MONGODB_URI = (STORAGE_TYPE = "mongodb")
    /\ mongo_client = (IF STORAGE_TYPE = "mongodb" THEN "client" ELSE None)
    /\ mongo_collection = (IF STORAGE_TYPE = "mongodb" THEN "collection" ELSE None)
    /\ API_KEY = TRUE
    /\ limits = [maxEvents |-> MaxEvents, maxFaults |-> MaxFaults, slots |-> 0]
    /\ InitFixed

\* A history of n turns, each with its own content.
TurnsTo(n) ==
    [i \in 1..n |-> Turn(IF i % 2 = 1 THEN "user" ELSE "assistant",
                         Str(<<"turn", ToString(i)>>))]

\* Shorter than the cap, exactly the cap, one pair more than the cap.
StoreHistories ==
    {TurnsTo(2), TurnsTo(2 * max_history_len_pairs), TurnsTo(2 * max_history_len_pairs + 2)}

\* user_info arguments: None, {}, the dict on_message builds, and a dict with
\* a value isinstance rejects.
StoreInfos(u) ==
    {NoneInfo, Dict({}), user_info_dict(u),
     Dict({<<"id", [t |-> "int", v |-> <<ToString(u)>>]>>,
           <<"member", [t |-> "object", v |-> <<"Member">>]>>})}

\* bot.py:109-153 run to its end; `ok` is FALSE when update_one raises.
StoreWrite(w, key, history, conversation_id, user_info, ok) ==
    LET limited == limited_history(history)
    IN  IF UseMongo(STORAGE_TYPE, mongo_collection)
          THEN [w EXCEPT !.mongo[key] = mongo_set(w.mongo[key], limited, conversation_id,
                                                  user_info, ok)]
        ELSE LET w1 == [w EXCEPT !.mem[key].history = 0]
                 o  == Alloc(w1)
             IN  Collect([w1 EXCEPT !.heap[o] = limited,
                                    !.mem[key] = memory_set(w.mem[key], o, conversation_id,
                                                            user_info)])

\* bot.py:76-107 run to its end: the returned record, its history as a value;
\* `ok` is FALSE when find_one raises.
StoreRead(w, key, ok) ==
    IF UseMongo(STORAGE_TYPE, mongo_collection)
      THEN mongo_get(w.mongo[key], ok)
    ELSE LET r == memory_get(w, key)
         IN  [history |-> r.w.heap[r.data.history],
              conversation_id |-> r.data.conversation_id,
              user_info |-> r.data.user_info]

\* await save_user_data(u, history, conversation_id, user_info), then
\* await get_user_data(u), with nothing in between; at most one of the two
\* store commands raises.
WriteRead(u, history, conversation_id, user_info, wok, rok) ==
    /\ TotalEvents < limits.maxEvents
    /\ wok \/ rok
    /\ (wok /\ rok) \/ (UseMongo(STORAGE_TYPE, mongo_collection) /\ faults < limits.maxFaults)
    /\ nEvents' = [nEvents EXCEPT ![u] = @ + 1]
    /\ faults' = IF wok /\ rok THEN faults ELSE faults + 1
    /\ LET key == user_id_str(u)
           via == IF UseMongo(STORAGE_TYPE, mongo_collection) THEN "mongodb" ELSE "memory"
           w1  == StoreWrite(World, key, history, conversation_id, user_info, wok)
       IN  /\ in_memory_storage' = w1.mem
           /\ heap' = w1.heap
           /\ mongo' = w1.mongo
           /\ ops' = <<[kind |-> "save", via |-> via, key |-> key, ok |-> wok,
                        before |-> IF via = "memory" THEN StoredMemory(World, key)
                                   ELSE StoredMongo(World, key),
                        history |-> history, conversation_id |-> conversation_id,
                        user_info |-> user_info],
                       [kind |-> "get", via |-> via, key |-> key, ok |-> rok,
                        data |-> StoreRead(w1, key, rok)]>>
    /\ UNCHANGED <<pl, past>>
    /\ Frame

StoreNext ==
    \E u \in Users, history \in StoreHistories, conversation_id \in {None, "c1"},
       wok \in BOOLEAN, rok \in BOOLEAN :
        \E user_info \in StoreInfos(u) :
            WriteRead(u, history, conversation_id, user_info, wok, rok)

StoreSpec == StoreInit /\ [][StoreNext]_vars

\* The user_info a caller passed, without the values that are no primitives.
PrimitiveFiltered(user_info) ==
    IF user_info.t = "none" THEN NoneInfo
    ELSE Dict({kv \in user_info.items : kv[2].t # "object"})

\* C3 as claimed: a write that succeeds, followed at once by a read, returns
\* the last 20 turns of the written history in order, the written
\* conversation id, and the primitive-filtered user info that was written.
C3_ReadsBackWhatWasWritten ==
    (ops # <<>> /\ ops[1].ok /\ ops[2].ok)
    => /\ ops[2].data.history = LastTurns(ops[1].history, 20)
       /\ ops[2].data.conversation_id = ops[1].conversation_id
       /\ ops[2].data.user_info = PrimitiveFiltered(ops[1].user_info)

\* C3 as amended: a write that succeeds, followed at once by a read that
\* succeeds, returns the last 20 turns of the written history in order and
\* the written conversation id; the user info returned is the
\* primitive-filtered user info that was written when that was a non-empty
\* dict, and otherwise the user info the record held before the write (null
\* when there was none).
C3_RoundTrip ==
    (ops # <<>> /\ ops[1].ok /\ ops[2].ok)
    => /\ ops[2].data.history = LastTurns(ops[1].history, 20)
       /\ ops[2].data.conversation_id = ops[1].conversation_id
       /\ ops[2].data.user_info =
            (IF ops[1].user_info.t = "dict" /\ ops[1].user_info.items # {}
               THEN PrimitiveFiltered(ops[1].user_info)
             ELSE ops[1].before.user_info)

\* A history longer than the cap and a user info with a value that is no
\* primitive have been written over an existing record, and read back.
C3_Witness ==
    /\ ops # <<>>
    /\ ops[1].ok /\ ops[2].ok
    /\ ops[1].before.present
    /\ Len(ops[1].before.history) = 2
    /\ Len(ops[1].history) > 20
    /\ \E kv \in ops[1].user_info.items : kv[2].t = "object"
    /\ Len(ops[2].data.history) = 20

-----------------------------------------------------------------------------
(* format_history_for_api (bot.py:195-221) on its own.                     *)

\* Longest list of messages given to format_history_for_api.
MaxTurns == 4

\* A dict of the list that has no "content" key.
NoContent == [t |-> "absent", v |-> <<>>]

\* "content" in m
HasContent(m) == m.content.t # "absent"

\* bot.py:203-220: the while loop from index i (1-based here) with
\* api_history built so far; `messages` is threaded through to show what the
\* loop does to it.
RECURSIVE format_scan(_, _, _)
format_scan(messages, i, api_history) ==
    IF ~(i <= Len(messages)) THEN [messages |-> messages, api_history |-> api_history]
    ELSE IF messages[i].role = "user" /\ HasContent(messages[i])
      THEN IF i + 1 <= Len(messages) /\ messages[i + 1].role = "assistant"
                /\ HasContent(messages[i + 1])
             THEN format_scan(messages, i + 2,
                              Append(api_history, [prompt |-> messages[i].content,
                                                   response |-> messages[i + 1].content]))
           ELSE format_scan(messages, i + 1, api_history)
    ELSE format_scan(messages, i + 1, api_history)

\* format_history_for_api giving a trailing user message an entry of its own.
format_history_for_api_unpaired(messages) ==
    LET r    == format_scan(messages, 1, <<>>)
        n    == Len(messages)
    IN  IF n > 0 /\ messages[n].role = "user" /\ HasContent(messages[n])
          THEN [r EXCEPT !.api_history =
                    Append(@, [prompt |-> messages[n].content, response |-> PyNone])]
        ELSE r

\* bot.py:195-221
format_history_for_api(messages) == format_scan(messages, 1, <<>>)

\* The lists of at most MaxTurns dicts: each dict has a role, and a content
\* of its own or none.
FormatInputs ==
    UNION {{[i \in 1..n |-> Turn(role[i], IF content[i] THEN Str(<<"content", ToString(i)>>)
                                          ELSE NoContent)] :
                role \in [1..n -> {"user", "assistant", "system"}],
                content \in [1..n -> BOOLEAN]} : n \in 0..MaxTurns}

\* The caller's list is list object 1.
FormatInit ==
    /\ STORAGE_TYPE = "memory"
    /\ MONGODB_URI = FALSE
    /\ API_KEY = TRUE
    /\ mongo_client = None
    /\ mongo_collection = None
    /\ init = [pc |-> "idle", ran |-> FALSE]
    /\ limits = [maxEvents |-> 0, maxFaults |-> 0, slots |-> 0]
    /\ in_memory_storage = [k \in Keys |-> NoRecord]
    /\ \E messages \in FormatInputs :
            heap = [o \in ObjIds |-> IF o = 1 THEN messages ELSE <<>>]
    /\ mongo = [k \in Keys |-> NoDoc]
    /\ proc = "running"
    /\ pl = [p \in Slots |-> IdlePl]
    /\ nEvents = [u \in Users |-> 0]
    /\ faults = 0
    /\ ops = <<>>
    /\ past = [fellBack |-> FALSE, variants |-> {}, configured |-> STORAGE_TYPE]
    /\ call = NoCall

\* A caller evaluates format_history_for_api on its list, once.
FormatCall ==
    /\ ops = <<>>
    /\ LET r == format_history_for_api(heap[1])
       IN  /\ ops' = <<[kind |-> "format", messages |-> heap[1],
                        api_history |-> r.api_history]>>
           /\ heap' = [heap EXCEPT ![1] = r.messages]
    /\ UNCHANGED <<STORAGE_TYPE, MONGODB_URI, API_KEY, mongo_client, mongo_collection,
                   in_memory_storage, mongo, proc, init, pl, nEvents, faults,
                   limits, call, past>>

FormatNext == FormatCall

FormatSpec == FormatInit /\ [][FormatNext]_vars

Formats == {e \in Range(ops) : e.kind = "format"}

\* A user turn, an assistant turn: a dict with that role and a content.
IsUserTurn(m) == m.role = "user" /\ m.content.t = "str"
IsAssistantTurn(m) == m.role = "assistant" /\ m.content.t = "str"

\* The positions of H where a user turn is immediately followed by an assistant turn, ascending.
PairPositions(H) ==
    SelectSeq([i \in 1..(Len(H) - 1) |-> i],
              LAMBDA i : IsUserTurn(H[i]) /\ IsAssistantTurn(H[i + 1]))

\* C11: format_history_for_api(H) is exactly the sequence of {prompt,
\* response} entries, in input order, for the positions where a user turn is
\* immediately followed by an assistant turn; nothing else yields an entry
\* (not a trailing unpaired user turn, not a turn that is no user turn), and
\* H is not modified.
C11_PairsInOrder ==
    \A e \in Formats :
        LET at == PairPositions(e.messages)
        IN  /\ e.api_history = [k \in 1..Len(at) |->
                                   [prompt |-> e.messages[at[k]].content,
                                    response |-> e.messages[at[k] + 1].content]]
            /\ heap[1] = e.messages

\* A history with a pair, then an unpaired user turn, a pair again and a
\* trailing user turn has been formatted.
C11_Witness ==
    \E e \in Formats :
        /\ Len(e.messages) = 4
        /\ IsUserTurn(e.messages[1]) /\ IsUserTurn(e.messages[2])
        /\ IsAssistantTurn(e.messages[3]) /\ IsUserTurn(e.messages[4])
        /\ Len(e.api_history) = 1
        /\ e.api_history[1].prompt = e.messages[2].content

-----------------------------------------------------------------------------
(* What an inbound event may cause.                                        *)

\* The event is no command and comes from a direct channel, or from a shared
\* channel with a mention of the bot in front.
Addressed(ev) ==
    /\ ~ev.command
    /\ ev.channel = "dm" \/ (ev.channel \in {"guild", "group"} /\ ev.mention # "none")

\* The text that is left: a shared channel's text without its mention.
TextLeft(ev) ==
    IF ev.channel = "dm" THEN MentionText(ev.mention) \o (IF ev.rest = "empty" THEN <<>> ELSE <<"text">>)
    ELSE IF ev.rest = "empty" THEN <<>> ELSE <<"text">>

\* C12: a store read, a store write or a remote API call is made for an
\* event only if the event is no command, is addressed to the bot (direct
\* channel, or shared channel with a mention in front) and has text left
\* after the mention; an event that is neither a command nor addressed to
\* the bot produces no outbound message either.
C12_OnlyAddressedEvents ==
    [][(ops' # <<>> /\ ops'[1].kind = "event")
       => LET ev == ops'[1].ev
          IN  /\ ~(Addressed(ev) /\ TextLeft(ev) # <<>>)
                   => /\ UNCHANGED <<in_memory_storage, heap, mongo, pl, nEvents>>
                      /\ \A e \in Range(ops') : e.kind \notin {"read", "write"}
              /\ (~ev.command /\ ~Addressed(ev))
                   => \A e \in Range(ops') : e.kind # "send"]_vars

\* While a POST is in flight, a message of a guild channel that does not
\* mention the bot has arrived and has had no effect.
C12_Witness ==
    /\ ops = <<[kind |-> "event",
                ev |-> [self |-> FALSE, command |-> FALSE, channel |-> "guild",
                        mention |-> "none", rest |-> "text"]]>>
    /\ \E p \in Slots : pl[p].pc = "post"
    /\ TotalEvents = 1

-----------------------------------------------------------------------------
(* One on_message coroutine at a time, in either variant once it is        *)
(* established, with every failure of the store and every outcome of the   *)
(* POST.                                                                   *)

SerialInit ==
    /\ STORAGE_TYPE \in {"memory", "mongodb"}
    /\ MONGODB_URI = (STORAGE_TYPE = "mongodb")
    /\ API_KEY \in BOOLEAN
    /\ mongo_client = (IF STORAGE_TYPE = "mongodb" THEN "client" ELSE None)
    /\ mongo_collection = (IF STORAGE_TYPE = "mongodb" THEN "collection" ELSE None)
    /\ in_memory_storage = [k \in Keys |-> NoRecord]
    /\ heap = [o \in ObjIds |-> <<>>]
    /\ mongo \in {m \in [Keys -> UNION {PriorDocs(u) : u \in Users}] :
                    \A u \in Users : m[user_id_str(u)] \in PriorDocs(u)}
    /\ STORAGE_TYPE # "mongodb" => \A k \in Keys : mongo[k] = NoDoc
    /\ proc = "running"
    /\ init = [pc |-> "idle", ran |-> TRUE]
    /\ pl = [p \in Slots |-> IdlePl]
    /\ nEvents = [u \in Users |-> 0]
    /\ faults = 0
    /\ limits = [maxEvents |-> MaxEvents, maxFaults |-> 3 * MaxEvents, slots |-> 1]
    /\ ops = <<>>
    /\ past = [fellBack |-> FALSE, variants |-> {}, configured |-> STORAGE_TYPE]
    /\ call = NoCall

\* The outcomes the coroutines of SerialSpec meet: those of Spec, a success
\* whose conversation_id is null, a success of another 2xx status and a
\* request that gets no response.
SerialOutcomes ==
    PipelineOutcomes
    \cup {Response(200, TRUE, "object", Field(Str(<<"answer">>)), FieldId(None)),
          Response(201, TRUE, "object", Field(Str(<<"answer">>)), FieldId("c2")),
          [kind |-> "TimeoutError", resp |-> NoResponse]}

SerialNext ==
    \/ \E p \in Slots, u \in Users, ev \in Events : Arrive(p, u, ev)
    \/ \E p \in Slots, ok \in BOOLEAN : FindOneDone(p, ok)
    \/ \E p \in Slots, outcome \in SerialOutcomes : PostDone(p, outcome)
    \/ \E p \in Slots, ok \in BOOLEAN : UpdateOneDone(p, ok)
    \/ \E p \in Slots : Send(p)

SerialSpec == SerialInit /\ [][SerialNext]_vars

Writes == {e \in StoreOps : e.kind = "write" /\ e.ok}

\* The POST succeeded (status 200, served as JSON, a JSON object) and its
\* body has a conversation_id that is an id.
ReturnedAnId(outcome) ==
    /\ outcome.kind = "response"
    /\ outcome.resp.status = 200
    /\ outcome.resp.json_ctype
    /\ outcome.resp.body.shape = "object"
    /\ outcome.resp.body.fields.conversation_id.present
    /\ outcome.resp.body.fields.conversation_id.val # None

\* C13: the conversation id a coroutine's write stores is the one the API
\* returned when the call succeeded and returned one, and the one the
\* coroutine read from the store in every other case.
C13_ThreadedConversationId ==
    \A e \in Writes :
        /\ e.conversation_id =
              (IF ReturnedAnId(e.outcome)
                 THEN e.outcome.resp.body.fields.conversation_id.val
               ELSE e.read_id)
        /\ StoredNow(e).conversation_id = e.conversation_id

-----------------------------------------------------------------------------
(* chunk_string (bot.py:168-189) on its own.  A text is the sequence of    *)
(* its characters.                                                         *)

\* Longest text given to chunk_string, and largest max_length.
MaxText == 5
MaxLimit == 3

\* Two letters, the space, the newline and the tab.
Chars == {"a", "b", " ", "\n", "\t"}
\* What str.lstrip() removes.
IsSpace(c) == c \in {" ", "\n", "\t"}

\* text.rindex('\n', 0, max_length) and text.rindex(' ', 0, max_length), the
\* larger of the two, -1 when both raise ValueError (indices from 0).
last_break(text, max_length) ==
    LET found == {i \in 0..(max_length - 1) : i < Len(text) /\ text[i + 1] \in {"\n", " "}}
    IN  IF found = {} THEN -1 ELSE CHOOSE i \in found : \A j \in found : j <= i

\* split_index breaking one character late when there is no natural break.
split_index_late(text, max_length) ==
    IF last_break(text, max_length) = -1 THEN max_length + 1
    ELSE last_break(text, max_length)

\* bot.py:173-182
split_index(text, max_length) ==
    IF last_break(text, max_length) = -1 THEN max_length
    ELSE last_break(text, max_length)

\* lstrip_count removing the first character whatever it is.
lstrip_count_any(text) == IF text = <<>> THEN 0 ELSE 1

\* How many characters text.lstrip() removes.
lstrip_count(text) ==
    IF \A i \in 1..Len(text) : IsSpace(text[i]) THEN Len(text)
    ELSE (CHOOSE i \in 1..Len(text) : ~IsSpace(text[i]) /\ \A j \in 1..(i - 1) : IsSpace(text[j])) - 1

\* bot.py:171-188: the while loop and the final append.  `at` is the
\* position of `text` in the text chunk_string was called with, and `starts`
\* the positions of the chunks in it (history values).
RECURSIVE chunk_loop(_, _, _, _, _)
chunk_loop(text, max_length, chunks, at, starts) ==
    IF Len(text) > max_length
      THEN LET cut  == split_index(text, max_length)
               rest == SubSeq(text, cut + 1, Len(text))
               k    == lstrip_count(rest)
           IN  chunk_loop(SubSeq(rest, k + 1, Len(rest)), max_length,
                          Append(chunks, SubSeq(text, 1, cut)),
                          at + cut + k, Append(starts, at))
    ELSE IF text # <<>>
      THEN [chunks |-> Append(chunks, text), starts |-> Append(starts, at)]
    ELSE [chunks |-> chunks, starts |-> starts]

\* bot.py:168-189
chunk_string(text, max_length) == chunk_loop(text, max_length, <<>>, 1, <<>>)

Texts == UNION {[1..n -> Chars] : n \in 0..MaxText}

ChunkInit ==
    /\ STORAGE_TYPE = "memory"
    /\ MONGODB_URI = FALSE
    /\ API_KEY = TRUE
    /\ mongo_client = None
    /\ mongo_collection = None
    /\ init = [pc |-> "idle", ran |-> FALSE]
    /\ limits = [maxEvents |-> 0, maxFaults |-> 0, slots |-> 0]
    /\ in_memory_storage = [k \in Keys |-> NoRecord]
    /\ heap = [o \in ObjIds |-> <<>>]
    /\ mongo = [k \in Keys |-> NoDoc]
    /\ proc = "running"
    /\ pl = [p \in Slots |-> IdlePl]
    /\ nEvents = [u \in Users |-> 0]
    /\ faults = 0
    /\ ops = <<>>
    /\ past = [fellBack |-> FALSE, variants |-> {}, configured |-> STORAGE_TYPE]
    /\ call \in [text : Texts, max_length : 1..MaxLimit]

\* chunk_string(call.text, call.max_length) is evaluated, once.
ChunkCall ==
    /\ ops = <<>>
    /\ LET r == chunk_string(call.text, call.max_length)
       IN  ops' = <<[kind |-> "chunks", text |-> call.text, max_length |-> call.max_length,
                     chunks |-> r.chunks, starts |-> r.starts]>>
    /\ UNCHANGED <<STORAGE_TYPE, MONGODB_URI, API_KEY, mongo_client, mongo_collection,
                   in_memory_storage, heap, mongo, proc, init, pl, nEvents, faults,
                   limits, call, past>>

ChunkNext == ChunkCall

ChunkSpec == ChunkInit /\ [][ChunkNext]_vars

Chunked == {e \in Range(ops) : e.kind = "chunks"}

\* C14: every chunk has at most max_length characters, and the chunks come
\* in the order of the text: each is the piece of the text at its position,
\* and each begins after the one before it has ended.
C14_ChunksFitInOrder ==
    \A e \in Chunked :
        /\ Len(e.starts) = Len(e.chunks)
        /\ \A i \in 1..Len(e.chunks) :
              /\ Len(e.chunks[i]) <= e.max_length
              /\ e.starts[i] >= 1
              /\ e.starts[i] + Len(e.chunks[i]) - 1 <= Len(e.text)
              /\ e.chunks[i] = [j \in 1..Len(e.chunks[i]) |-> e.text[e.starts[i] + j - 1]]
              /\ i > 1 => e.starts[i - 1] + Len(e.chunks[i - 1]) <= e.starts[i]

\* A text has been cut into three chunks, at a natural break and at a forced one.
C14_Witness ==
    \E e \in Chunked :
        /\ Len(e.chunks) = 3
        /\ e.max_length = 2
        /\ e.text = <<"a", " ", "b", "a", "b">>
        /\ e.chunks = << <<"a">>, <<"b", "a">>, <<"b">> >>

\* The chunks joined, in order.
RECURSIVE Concat(_)
Concat(chunks) == IF chunks = <<>> THEN <<>> ELSE Head(chunks) \o Concat(Tail(chunks))

\* The positions of the text that are in some chunk.
Kept(e) ==
    {n \in 1..Len(e.text) :
        \E i \in 1..Len(e.chunks) : e.starts[i] <= n /\ n < e.starts[i] + Len(e.chunks[i])}

\* The text without the positions that are in no chunk.
KeptText(e) == SelectSeq([n \in 1..Len(e.text) |-> n], LAMBDA n : n \in Kept(e))

\* The joined chunks are the text with only whitespace removed, at the breaks.
OnlySpaceRemoved(e) ==
    /\ \A n \in (1..Len(e.text)) \ Kept(e) : IsSpace(e.text[n])
    /\ Concat(e.chunks) = [k \in 1..Len(KeptText(e)) |-> e.text[KeptText(e)[k]]]
    /\ SelectSeq(Concat(e.chunks), LAMBDA c : ~IsSpace(c))
         = SelectSeq(e.text, LAMBDA c : ~IsSpace(c))

\* The joined chunks are the text, cut into ceil(length / max_length) chunks.
CutEvenly(e) ==
    /\ Concat(e.chunks) = e.text
    /\ Len(e.chunks) = (Len(e.text) + e.max_length - 1) \div e.max_length

\* C15 as claimed: joining the chunks gives the text with only whitespace
\* removed at the breaks; for a text with no space and no newline it gives
\* the text exactly, in ceil(length / max_length) chunks.
C15_NoSpaceNoNewline ==
    \A e \in Chunked :
        /\ OnlySpaceRemoved(e)
        /\ (\A n \in 1..Len(e.text) : e.text[n] \notin {" ", "\n"}) => CutEvenly(e)

\* C15 as amended: joining the chunks gives the text with only whitespace
\* removed at the breaks; for a text with no whitespace character at all
\* (no space, newline, tab or other character that lstrip removes) it gives
\* the text exactly, in ceil(length / max_length) chunks.
C15_NoWhitespace ==
    \A e \in Chunked :
        /\ OnlySpaceRemoved(e)
        /\ (\A n \in 1..Len(e.text) : ~IsSpace(e.text[n])) => CutEvenly(e)

\* A text of five letters has been cut into three chunks of at most two.
C15_Witness ==
    \E e \in Chunked :
        /\ e.text = <<"a", "b", "a", "b", "a">>
        /\ e.max_length = 2
        /\ Len(e.chunks) = 3

\* C16: from a coroutine's store read until its store write, the record the
\* store holds for its user is not changed by it: a step that leaves a
\* coroutine between its read and its write leaves the record of its user
\* as it was, in memory and in the collection.
C16_StoreUntouchedBetweenReadAndWrite ==
    [][\A p \in Slots, u \in Users :
          (pl'[p].pc \in {"find_one", "post", "update_one"} /\ pl'[p].user = u)
          => /\ StoredMemory(World, user_id_str(u))' = StoredMemory(World, user_id_str(u))
             /\ StoredMongo(World, user_id_str(u))' = StoredMongo(World, user_id_str(u))]_vars

-----------------------------------------------------------------------------
(* The send loop of on_message (bot.py:390-401) on its own: a coroutine    *)
(* that has its answer, with every outcome of each channel.send.  The      *)
(* answer is call.text and the chunk size call.max_length.                 *)

\* channel.send returns, raises discord.Forbidden, raises another
\* discord.HTTPException, or raises something that is no HTTPException.
SendOutcomes == {"ok", "Forbidden", "HTTPException", "OSError"}

SendInit ==
    /\ STORAGE_TYPE = "memory"
    /\ MONGODB_URI = FALSE
    /\ API_KEY = TRUE
    /\ mongo_client = None
    /\ mongo_collection = None
    /\ init = [pc |-> "idle", ran |-> TRUE]
    /\ limits = [maxEvents |-> 0, maxFaults |-> 0, slots |-> 0]
    /\ in_memory_storage = [k \in Keys |-> NoRecord]
    /\ heap = [o \in ObjIds |-> <<>>]
    /\ mongo = [k \in Keys |-> NoDoc]
    /\ proc = "running"
    /\ call \in [text : Texts, max_length : 1..MaxLimit]
    /\ pl = [p \in Slots |-> IF p = 1 THEN [IdlePl EXCEPT !.pc = "send", !.user = 1,
                                                          !.answer = Str(call.text)]
                             ELSE IdlePl]
    /\ nEvents = [u \in Users |-> 0]
    /\ faults = 0
    /\ ops = <<>>
    /\ past = [fellBack |-> FALSE, variants |-> {}, configured |-> STORAGE_TYPE]

\* The for loop has ended (exhausted, break, or an exception leaving on_message).
EndOfLoop(p, how, attempts) ==
    /\ pl' = [pl EXCEPT ![p] = IdlePl]
    /\ ops' = <<[kind |-> "loop", how |-> how, answer_chunks |-> pl[p].answer_chunks,
                 attempts |-> attempts]>>

\* bot.py:391-392: chunk_string(answer) and the first iteration, up to its await.
StartSending(p) ==
    /\ proc = "running"
    /\ pl[p].pc = "send"
    /\ LET chunks == chunk_string(pl[p].answer.v, call.max_length).chunks
       IN  IF chunks = <<>>
             THEN /\ pl' = [pl EXCEPT ![p] = IdlePl]
                  /\ ops' = <<[kind |-> "loop", how |-> "exhausted",
                               answer_chunks |-> chunks, attempts |-> <<>>]>>
           ELSE /\ pl' = [pl EXCEPT ![p].pc = "sending", ![p].answer_chunks = chunks,
                                    ![p].k = 1]
                /\ ops' = <<>>
    /\ UNCHANGED <<in_memory_storage, heap, mongo, faults, past, nEvents>>
    /\ Frame

\* after_send giving up at the first HTTPException of any kind.
after_send_gives_up(outcome, k, n) ==
    IF outcome \in {"Forbidden", "HTTPException"} THEN "break"
    ELSE IF outcome = "OSError" THEN "raised"
    ELSE IF k = n THEN "exhausted"
    ELSE "next"

\* bot.py:393-401: what the loop does after the send of chunk k of n ended
\* with `outcome`: break on Forbidden, go on after another HTTPException, and
\* let anything else leave on_message.
after_send(outcome, k, n) ==
    IF outcome = "Forbidden" THEN "break"
    ELSE IF outcome = "OSError" THEN "raised"
    ELSE IF k = n THEN "exhausted"
    ELSE "next"

\* bot.py:393-401: await message.channel.send(chunk) ends with `outcome`, and
\* the loop goes on to the await of the next iteration, or ends.
SendChunkDone(p, outcome) ==
    /\ proc = "running"
    /\ pl[p].pc = "sending"
    /\ LET k        == pl[p].k
           attempts == Append(pl[p].attempts,
                              [k |-> k, chunk |-> pl[p].answer_chunks[k], outcome |-> outcome])
           how      == after_send(outcome, k, Len(pl[p].answer_chunks))
       IN  IF how # "next" THEN EndOfLoop(p, how, attempts)
           ELSE /\ pl' = [pl EXCEPT ![p].k = k + 1, ![p].attempts = attempts]
                /\ ops' = <<>>
    /\ UNCHANGED <<in_memory_storage, heap, mongo, faults, past, nEvents>>
    /\ Frame

SendNext ==
    \/ \E p \in Slots : StartSending(p)
    \/ \E p \in Slots, outcome \in SendOutcomes : SendChunkDone(p, outcome)

SendSpec == SendInit /\ [][SendNext]_vars

Loops == {e \in Range(ops) : e.kind = "loop"}

\* The sends made so far are those of chunks 1, 2, ... in this order, once each.
InOrderOnce(attempts, answer_chunks) ==
    /\ Len(attempts) <= Len(answer_chunks)
    /\ \A i \in 1..Len(attempts) :
          attempts[i].k = i /\ attempts[i].chunk = answer_chunks[i]

\* C17: the chunks of an answer are sent one at a time in their order, each
\* attempted at most once; after a send fails with Forbidden no later chunk
\* is attempted, and after a send of chunk k fails with another
\* HTTPException chunk k + 1 is still attempted.
C17_SendLoop ==
    /\ \A e \in Loops :
          /\ InOrderOnce(e.attempts, e.answer_chunks)
          /\ \A i \in 1..Len(e.attempts) :
                /\ e.attempts[i].outcome = "Forbidden" => i = Len(e.attempts)
                /\ (e.attempts[i].outcome = "HTTPException" /\ i < Len(e.answer_chunks))
                     => Len(e.attempts) >= i + 1
    /\ \A p \in Slots :
          pl[p].pc = "sending"
          => /\ InOrderOnce(pl[p].attempts, pl[p].answer_chunks)
             /\ pl[p].k = Len(pl[p].attempts) + 1
             /\ pl[p].k <= Len(pl[p].answer_chunks)
             /\ \A i \in 1..Len(pl[p].attempts) : pl[p].attempts[i].outcome # "Forbidden"

\* Of three chunks the first has failed with an HTTPException, the second
\* with Forbidden, and the third has not been attempted.
C17_Witness ==
    \E e \in Loops :
        /\ Len(e.answer_chunks) = 3
        /\ Len(e.attempts) = 2
        /\ e.attempts[1].outcome = "HTTPException"
        /\ e.attempts[2].outcome = "Forbidden"
        /\ e.how = "break"

\* The history the store held for the user of write `e` when the coroutine
\* of `e` began (no other coroutine of the user ran meanwhile): what it read
\* from the dict, or what the collection held until its update.
PreviouslyStored(e) == IF e.via = "memory" THEN e.view ELSE e.before.history

\* C18: when the coroutines of a user never overlap, each write that
\* succeeds stores the previously stored history followed by the new user
\* turn and the new assistant turn, cut to the last 20 turns, also when the
\* coroutine's own read from the collection failed.
C18_WriteExtendsStoredHistory ==
    \A e \in Writes :
        StoredNow(e).history = LastTurns(PreviouslyStored(e) \o <<e.uturn, e.aturn>>, 20)

\* C19: when the coroutines of a user never overlap, after every write the
\* stored history of the user is a sequence of complete pairs: of even
\* length, beginning with a user turn, user and assistant turns alternating;
\* also once the cap drops the oldest turns, and when the remote call failed.
C19_CompletePairs ==
    \A e \in Writes :
        LET h == StoredNow(e).history
        IN  /\ Len(h) % 2 = 0
            /\ \A i \in 1..Len(h) :
                  h[i].role = (IF i % 2 = 1 THEN "user" ELSE "assistant")

\* A failure text has been stored as the assistant turn of a record that
\* already had 20 turns.
C19_Witness ==
    \E e \in Writes :
        /\ Len(e.before.history) = 20
        /\ e.outcome.kind = "response" /\ e.outcome.resp.status = 500
        /\ Len(StoredNow(e).history) = 20
        /\ StoredNow(e).history[20] = e.aturn
        /\ "500" \in Range(e.aturn.content.v)

-----------------------------------------------------------------------------
(* The on_message coroutine of one event, from the event to its end, under *)
(* the scheduling of asyncio: a suspended coroutine is resumed once what   *)
(* it awaits is done.  find_one and update_one return or raise, and the    *)
(* POST ends within its total timeout of 120 seconds (bot.py:250), so each *)
(* await ends.  Nothing makes a further event arrive.                      *)

LiveEvents == 1

LiveInit ==
    /\ STORAGE_TYPE \in {"memory", "mongodb"}
    /\ MONGODB_URI = (STORAGE_TYPE = "mongodb")
    /\ API_KEY \in BOOLEAN
    /\ mongo_client = (IF STORAGE_TYPE = "mongodb" THEN "client" ELSE None)
    /\ mongo_collection = (IF STORAGE_TYPE = "mongodb" THEN "collection" ELSE None)
    /\ in_memory_storage = [k \in Keys |-> NoRecord]
    /\ heap = [o \in ObjIds |-> <<>>]
    /\ mongo \in {m \in [Keys -> UNION {PriorDocs(u) : u \in Users}] :
                    \A u \in Users : m[user_id_str(u)] \in PriorDocs(u)}
    /\ STORAGE_TYPE # "mongodb" => \A k \in Keys : mongo[k] = NoDoc
    /\ proc = "running"
    /\ init = [pc |-> "idle", ran |-> TRUE]
    /\ pl = [p \in Slots |-> IdlePl]
    /\ nEvents = [u \in Users |-> 0]
    /\ faults = 0
    /\ limits = [maxEvents |-> LiveEvents, maxFaults |-> 3 * LiveEvents, slots |-> 1]
    /\ ops = <<>>
    /\ past = [fellBack |-> FALSE, variants |-> {}, configured |-> STORAGE_TYPE]
    /\ call = NoCall

\* The coroutine of slot `p` is resumed from the await it is suspended at,
\* or runs its send loop.
Resume(p) ==
    \/ \E ok \in BOOLEAN : FindOneDone(p, ok)
    \/ \E outcome \in SerialOutcomes : PostDone(p, outcome)
    \/ \E ok \in BOOLEAN : UpdateOneDone(p, ok)
    \/ Send(p)

LiveSpec == LiveInit /\ [][SerialNext]_vars /\ \A p \in Slots : WF_vars(Resume(p))

\* The step just taken has attempted to send a chunk of an answer.
Replied == \E i \in 1..Len(ops) : ops[i].kind = "send" /\ ops[i].what = "answer"

\* C20: every event that is to be processed (eligible, with text left)
\* eventually leads to an attempt to send a message to its channel: once the
\* coroutine of such an event is under way, a step that attempts to send an
\* answer follows, whatever the store and the remote API did.
C20_EveryEventAnswered ==
    (\E p \in Slots : pl[p].pc # "idle") ~> Replied

\* chunk_string has ended after at most one iteration per character: each
\* chunk begins further in the text than the one before it.
EndsWithinText(e) ==
    /\ Len(e.chunks) <= Len(e.text)
    /\ \A i \in 2..Len(e.starts) : e.starts[i - 1] < e.starts[i]

\* C21: for every text and every max_length >= 1, chunk_string terminates
\* and none of the chunks it returns is empty, wherever the spaces and the
\* newlines of the text are, its very start included.
C21_NoEmptyChunk ==
    \A e \in Chunked :
        /\ EndsWithinText(e)
        /\ \A i \in 1..Len(e.chunks) : e.chunks[i] # <<>>

====
